---- MODULE Spec2Model ----
(***************************************************************************)
(* Virtual-memory manager of the os4 kernel: MemorySet / MapArea of        *)
(* mm/memory_set.rs, the mmap / munmap services built on them, and task    *)
(* construction (task/task.rs).  The page table, the frame allocator, the  *)
(* address types and the configuration constants are other files of the    *)
(* crate; they are modelled here from their documented contracts.          *)
(***************************************************************************)
EXTENDS Integers, Sequences, FiniteSets, TLC

(***************************************************************************)
(* Bounds of the model.                                                    *)
(***************************************************************************)
\* Pages of the modelled virtual address space.  usize is modelled with the
\* modulus NumVPN * PAGE_SIZE, so the trampoline page is the last page
\* before the integer wraps, as it is on the 64-bit target.
NumVPN == 34
\* Frames of the physical pool [ekernel, MEMORY_END).
NumFrames == 26
\* Entries per page-table node (512 on the target).
Fan == 8
\* Applications loaded by the kernel.
NumTasks == 2
\* mmap requests are issued only while the segment list is shorter than this.
MaxAreas == 5
\* Pages of a user stack and of a kernel stack.
UserStackPages == 1
KernelStackPages == 1

(***************************************************************************)
(* Configuration (crate::config) and linker symbols.                       *)
(***************************************************************************)
PAGE_SIZE == 4096
UsizeMod == NumVPN * PAGE_SIZE
USIZE_MAX == UsizeMod - 1
TRAMPOLINE == USIZE_MAX - PAGE_SIZE + 1
TRAP_CONTEXT == TRAMPOLINE - PAGE_SIZE
USER_STACK_SIZE == UserStackPages * PAGE_SIZE
KERNEL_STACK_SIZE == KernelStackPages * PAGE_SIZE

\* Kernel image layout: one page per section, the trap stub at the start of
\* .text; the frame pool starts at ekernel.
stext == 0
etext == stext + PAGE_SIZE
strampoline == stext
srodata == etext
erodata == srodata + PAGE_SIZE
sdata == erodata
edata == sdata + PAGE_SIZE
sbss_with_stack == edata
ebss == sbss_with_stack + PAGE_SIZE
ekernel == ebss
MEMORY_END == ekernel + NumFrames * PAGE_SIZE

VPNs == 0 .. (NumVPN - 1)
AppIds == 0 .. (NumTasks - 1)

(***************************************************************************)
(* Flag bits.  PTEFlags: V R W X U at bits 0..4; MapPermission: R W X U at *)
(* bits 1..4 (memory_set.rs:409-419).                                      *)
(***************************************************************************)
PTE_V == 1
PTE_R == 2
PTE_W == 4
PTE_X == 8
PTE_U == 16
MapPermission_R == 2
MapPermission_W == 4
MapPermission_X == 8
MapPermission_U == 16

\* n & b # 0, for a single-bit mask b
HasBit(n, b) == (n \div b) % 2 = 1
\* n | b, for a single-bit mask b
OrBit(n, b) == IF HasBit(n, b) THEN n ELSE n + b

(***************************************************************************)
(* usize arithmetic: the wrapped value, and whether the exact result left  *)
(* the range (a panic when the build checks overflow).                     *)
(***************************************************************************)
USub(a, b) == [val |-> (a - b) % UsizeMod, ovf |-> a < b]
UAdd(a, b) == [val |-> (a + b) % UsizeMod, ovf |-> a + b >= UsizeMod]

(***************************************************************************)
(* Address types.                                                          *)
(***************************************************************************)
\* VirtAddr::floor, VirtAddr::ceil, VirtAddr::page_offset, VirtAddr::from(vpn)
VA_floor(va) == va \div PAGE_SIZE
VA_ceil(va) == (va + PAGE_SIZE - 1) \div PAGE_SIZE
page_offset(va) == va % PAGE_SIZE
VA_from_vpn(vpn) == vpn * PAGE_SIZE
PPN_from_pa(pa) == pa \div PAGE_SIZE

(***************************************************************************)
(* Frame allocator: a cursor over never-issued frames plus a stack of      *)
(* recycled ones.                                                          *)
(***************************************************************************)
init_frame_allocator ==
    [current |-> PPN_from_pa(ekernel), end |-> PPN_from_pa(MEMORY_END), recycled |-> <<>>]

\* frame_alloc(): [some, ppn, alloc]
frame_alloc(a) ==
    IF Len(a.recycled) > 0
    THEN [some |-> TRUE, ppn |-> a.recycled[Len(a.recycled)],
          alloc |-> [a EXCEPT !.recycled = SubSeq(a.recycled, 1, Len(a.recycled) - 1)]]
    ELSE IF a.current = a.end
         THEN [some |-> FALSE, ppn |-> 0, alloc |-> a]
         ELSE [some |-> TRUE, ppn |-> a.current,
               alloc |-> [a EXCEPT !.current = a.current + 1]]

InRecycled(a, ppn) == \E i \in 1 .. Len(a.recycled) : a.recycled[i] = ppn

\* frame_dealloc(ppn), run when a FrameTracker is dropped: [ok, alloc]
frame_dealloc(a, ppn) ==
    IF ppn >= a.current \/ InRecycled(a, ppn)
    THEN [ok |-> FALSE, alloc |-> a]
    ELSE [ok |-> TRUE, alloc |-> [a EXCEPT !.recycled = Append(a.recycled, ppn)]]

get_num_empty_frame(a) == (a.end - a.current) + Len(a.recycled)

(***************************************************************************)
(* Page table: three levels.  nodes maps the path of an allocated node     *)
(* (<<>> is the root) to its frame; leaves holds the leaf entry of every   *)
(* page.                                                                   *)
(***************************************************************************)
PTE_empty == [ppn |-> 0, flags |-> 0]
PTE_is_valid(pte) == HasBit(pte.flags, PTE_V)

indexes(vpn) == << vpn \div (Fan * Fan), (vpn \div Fan) % Fan, vpn % Fan >>

\* PageTable::new: [ok, pt, alloc]
PageTable_new(a) ==
    LET f == frame_alloc(a)
    IN  IF ~f.some
        THEN [ok |-> FALSE, pt |-> [nodes |-> << >>, leaves |-> [v \in VPNs |-> PTE_empty]],
              alloc |-> a]
        ELSE [ok |-> TRUE,
              pt |-> [nodes |-> (<< >> :> f.ppn), leaves |-> [v \in VPNs |-> PTE_empty]],
              alloc |-> f.alloc]

\* One level of find_pte_create: allocate the node at path when it is missing.
EnsureNode(r, path) ==
    IF ~r.ok \/ path \in DOMAIN r.pt.nodes
    THEN r
    ELSE LET f == frame_alloc(r.alloc)
         IN  IF ~f.some
             THEN [r EXCEPT !.ok = FALSE]
             ELSE [ok |-> TRUE,
                   pt |-> [r.pt EXCEPT !.nodes = (path :> f.ppn) @@ r.pt.nodes],
                   alloc |-> f.alloc]

find_pte_create(pt, a, vpn) ==
    LET idx == indexes(vpn)
    IN  EnsureNode(EnsureNode([ok |-> TRUE, pt |-> pt, alloc |-> a], << idx[1] >>),
                   << idx[1], idx[2] >>)

\* find_pte: the leaf entry is reachable only through allocated nodes.
find_pte(pt, vpn) ==
    LET idx == indexes(vpn)
    IN  /\ vpn \in VPNs
        /\ << idx[1] >> \in DOMAIN pt.nodes
        /\ << idx[1], idx[2] >> \in DOMAIN pt.nodes

\* PageTable::translate: the leaf entry when it is valid.
IsMapped(pt, vpn) == find_pte(pt, vpn) /\ PTE_is_valid(pt.leaves[vpn])
translate(pt, vpn) == IF IsMapped(pt, vpn) THEN pt.leaves[vpn] ELSE PTE_empty

\* PageTable::map: [ok, pt, alloc]; not ok is the failed assertion or unwrap.
PageTable_map(pt, a, vpn, ppn, flags) ==
    LET r == find_pte_create(pt, a, vpn)
    IN  IF ~r.ok \/ PTE_is_valid(r.pt.leaves[vpn])
        THEN [r EXCEPT !.ok = FALSE]
        ELSE [r EXCEPT !.pt.leaves[vpn] = [ppn |-> ppn, flags |-> OrBit(flags, PTE_V)]]

\* PageTable::unmap: [ok, pt]
PageTable_unmap(pt, vpn) ==
    IF ~IsMapped(pt, vpn)
    THEN [ok |-> FALSE, pt |-> pt]
    ELSE [ok |-> TRUE, pt |-> [pt EXCEPT !.leaves[vpn] = PTE_empty]]

\* vpn_range_is_unused(pt, start_n, len_n): no page of the range is mapped.
vpn_range_is_unused(pt, start_n, len_n) ==
    \A i \in 0 .. (len_n - 1) : ~IsMapped(pt, start_n + i)

\* vpn_range_is_used(pt, start, len): every page touched by the byte range
\* [start, start + len) is mapped.
vpn_range_is_used(pt, start, len) ==
    \A v \in VA_floor(start) .. (VA_ceil(start + len) - 1) : IsMapped(pt, v)

(***************************************************************************)
(* MapArea (memory_set.rs:309-400).  data_frames maps a page of the        *)
(* segment to the frame the segment owns for it.                           *)
(***************************************************************************)
MapArea_new(start_va, end_va, map_type, map_perm) ==
    [vpn_range |-> [start |-> VA_floor(start_va), end |-> VA_ceil(end_va)],
     data_frames |-> << >>,
     map_type |-> map_type,
     map_perm |-> map_perm]

\* The operations below thread c = [ok, pt, alloc, area]; ok = FALSE is a
\* panic, after which nothing more is done.
\* The segment after page_table.map returned m = [ok, pt, alloc].
mapped(m, area) == [ok |-> m.ok, pt |-> m.pt, alloc |-> m.alloc, area |-> area]

\* map_one whose Identical branch maps the page to the next frame.
map_one_shifted(c, vpn) ==
    IF ~c.ok
    THEN c
    ELSE IF c.area.map_type = "Identical"
         THEN mapped(PageTable_map(c.pt, c.alloc, vpn, vpn + 1, c.area.map_perm), c.area)
         ELSE LET f == frame_alloc(c.alloc)
              IN  IF ~f.some
                  THEN [c EXCEPT !.ok = FALSE]
                  ELSE mapped(PageTable_map(c.pt, f.alloc, vpn, f.ppn, c.area.map_perm),
                              [c.area EXCEPT
                                 !.data_frames = (vpn :> f.ppn) @@ c.area.data_frames])

map_one(c, vpn) ==
    IF ~c.ok
    THEN c
    ELSE IF c.area.map_type = "Identical"
         THEN mapped(PageTable_map(c.pt, c.alloc, vpn, vpn, c.area.map_perm), c.area)
         ELSE LET f == frame_alloc(c.alloc)
              IN  IF ~f.some
                  THEN [c EXCEPT !.ok = FALSE]
                  ELSE mapped(PageTable_map(c.pt, f.alloc, vpn, f.ppn, c.area.map_perm),
                              [c.area EXCEPT
                                 !.data_frames = (vpn :> f.ppn) @@ c.area.data_frames])

\* data_frames.remove(&vpn): the removed FrameTracker is dropped, which
\* returns its frame to the allocator.
RemoveFrame(c, vpn) ==
    IF vpn \in DOMAIN c.area.data_frames
    THEN LET d == frame_dealloc(c.alloc, c.area.data_frames[vpn])
         IN  [c EXCEPT !.ok = d.ok,
                       !.alloc = d.alloc,
                       !.area.data_frames =
                           [v \in (DOMAIN c.area.data_frames) \ {vpn} |-> c.area.data_frames[v]]]
    ELSE c

\* unmap_one that releases the frame but leaves the leaf entry in place
\* (memory_set.rs:361 left out).
unmap_one_keeps_entry(c, vpn) ==
    IF ~c.ok
    THEN c
    ELSE IF c.area.map_type = "Framed" THEN RemoveFrame(c, vpn) ELSE c

unmap_one(c, vpn) ==
    IF ~c.ok
    THEN c
    ELSE LET c1 == IF c.area.map_type = "Framed" THEN RemoveFrame(c, vpn) ELSE c
         IN  IF ~c1.ok
             THEN c1
             ELSE LET u == PageTable_unmap(c1.pt, vpn)
                  IN  [c1 EXCEPT !.ok = u.ok, !.pt = u.pt]

RECURSIVE MapFrom(_, _)
MapFrom(c, vpn) ==
    IF vpn >= c.area.vpn_range.end THEN c ELSE MapFrom(map_one(c, vpn), vpn + 1)

RECURSIVE UnmapFrom(_, _)
UnmapFrom(c, vpn) ==
    IF vpn >= c.area.vpn_range.end THEN c ELSE UnmapFrom(unmap_one(c, vpn), vpn + 1)

MapArea_map(c) == MapFrom(c, c.area.vpn_range.start)
MapArea_unmap(c) == UnmapFrom(c, c.area.vpn_range.start)

\* copy_data: every page-sized chunk of data (at least one) is written
\* through translate(vpn).unwrap(); the bytes themselves are not modelled.
\* data_len < 0 stands for data = None: nothing is copied.
copy_data(c, data_len) ==
    IF ~c.ok \/ data_len < 0
    THEN c
    ELSE LET chunks == IF data_len = 0 THEN 1 ELSE VA_ceil(data_len)
         IN  [c EXCEPT !.ok = \A i \in 0 .. (chunks - 1) :
                                  IsMapped(c.pt, c.area.vpn_range.start + i)]

(***************************************************************************)
(* MemorySet (memory_set.rs:37-302).  The operations return                *)
(* [ok, ms, alloc]; data_len < 0 stands for data = None.                   *)
(***************************************************************************)
NoData == 0 - 1

new_bare(a) ==
    LET n == PageTable_new(a)
    IN  [ok |-> n.ok, ms |-> [page_table |-> n.pt, areas |-> << >>], alloc |-> n.alloc]

\* areas_push of a push that appended the segment before mapping it.
areas_push_first(r, c) ==
    [ok |-> c.ok,
     ms |-> [page_table |-> c.pt, areas |-> Append(r.ms.areas, c.area)],
     alloc |-> c.alloc]

\* self.areas.push(map_area) with the segment c.area mapped (and filled).
areas_push(r, c) ==
    [ok |-> c.ok,
     ms |-> [page_table |-> c.pt,
             areas |-> IF c.ok THEN Append(r.ms.areas, c.area) ELSE r.ms.areas],
     alloc |-> c.alloc]

push(r, map_area, data_len) ==
    IF ~r.ok
    THEN r
    ELSE areas_push(r, copy_data(MapArea_map([ok |-> TRUE, pt |-> r.ms.page_table,
                                              alloc |-> r.alloc, area |-> map_area]),
                                 data_len))

insert_framed_area(r, start_va, end_va, permission) ==
    push(r, MapArea_new(start_va, end_va, "Framed", permission), NoData)

\* map_trampoline that also records the trampoline page as a segment.
map_trampoline_collected(r) ==
    IF ~r.ok
    THEN r
    ELSE LET m == PageTable_map(r.ms.page_table, r.alloc, VA_floor(TRAMPOLINE),
                                PPN_from_pa(strampoline), PTE_R + PTE_X)
             seg == [vpn_range |-> [start |-> VA_floor(TRAMPOLINE),
                                    end |-> VA_floor(TRAMPOLINE) + 1],
                     data_frames |-> << >>,
                     map_type |-> "Identical",
                     map_perm |-> MapPermission_R + MapPermission_X]
         IN  [ok |-> m.ok,
              ms |-> [page_table |-> m.pt, areas |-> Append(r.ms.areas, seg)],
              alloc |-> m.alloc]

map_trampoline(r) ==
    IF ~r.ok
    THEN r
    ELSE LET m == PageTable_map(r.ms.page_table, r.alloc, VA_floor(TRAMPOLINE),
                                PPN_from_pa(strampoline), PTE_R + PTE_X)
         IN  [ok |-> m.ok, ms |-> [r.ms EXCEPT !.page_table = m.pt], alloc |-> m.alloc]

\* new_kernel that maps .rodata writable and .data executable.
new_kernel_lax(a) ==
    push(push(push(push(push(map_trampoline(new_bare(a)),
                             MapArea_new(stext, etext, "Identical",
                                         MapPermission_R + MapPermission_X), NoData),
                        MapArea_new(srodata, erodata, "Identical",
                                    MapPermission_R + MapPermission_W), NoData),
                   MapArea_new(sdata, edata, "Identical",
                               MapPermission_R + MapPermission_W + MapPermission_X), NoData),
              MapArea_new(sbss_with_stack, ebss, "Identical",
                          MapPermission_R + MapPermission_W), NoData),
         MapArea_new(ekernel, MEMORY_END, "Identical",
                     MapPermission_R + MapPermission_W), NoData)

\* The five pushes, innermost first: .text, .rodata, .data, .bss, and the
\* physical memory above the kernel.
new_kernel(a) ==
    push(push(push(push(push(map_trampoline(new_bare(a)),
                             MapArea_new(stext, etext, "Identical",
                                         MapPermission_R + MapPermission_X), NoData),
                        MapArea_new(srodata, erodata, "Identical", MapPermission_R), NoData),
                   MapArea_new(sdata, edata, "Identical",
                               MapPermission_R + MapPermission_W), NoData),
              MapArea_new(sbss_with_stack, ebss, "Identical",
                          MapPermission_R + MapPermission_W), NoData),
         MapArea_new(ekernel, MEMORY_END, "Identical",
                     MapPermission_R + MapPermission_W), NoData)

(***************************************************************************)
(* ELF images.  A program header is [type, vaddr, mem_size, file_size,     *)
(* offset, flags], flags with the ELF bits X = 1, W = 2, R = 4; offset is  *)
(* where the header's bytes start in the image.                            *)
(***************************************************************************)
PF_X == 1
PF_W == 2
PF_R == 4

ElfOneSegment ==
    [magic_ok |-> TRUE, entry |-> 0,
     phs |-> << [type |-> "Load", vaddr |-> 0, mem_size |-> PAGE_SIZE,
                 file_size |-> PAGE_SIZE, offset |-> 0, flags |-> PF_R + PF_X] >>]

ElfTwoSegments ==
    [magic_ok |-> TRUE, entry |-> 0,
     phs |-> << [type |-> "Load", vaddr |-> 0, mem_size |-> PAGE_SIZE,
                 file_size |-> PAGE_SIZE, offset |-> 0, flags |-> PF_R + PF_X],
                [type |-> "Load", vaddr |-> PAGE_SIZE, mem_size |-> PAGE_SIZE,
                 file_size |-> 1, offset |-> PAGE_SIZE, flags |-> PF_R + PF_W] >>]

\* A large application: its segment leaves the frame pool nearly empty.
ElfLarge ==
    [magic_ok |-> TRUE, entry |-> 2 * Fan * PAGE_SIZE,
     phs |-> << [type |-> "Load", vaddr |-> 2 * Fan * PAGE_SIZE,
                 mem_size |-> (NumFrames - 17) * PAGE_SIZE,
                 file_size |-> PAGE_SIZE, offset |-> 0, flags |-> PF_R + PF_W + PF_X] >>]

Images == {ElfTwoSegments, ElfLarge}

\* ph_map_perm that leaves out the execute flag (memory_set.rs:186-188).
ph_map_perm_without_execute(ph) ==
    LET p0 == MapPermission_U
        p1 == IF HasBit(ph.flags, PF_R) THEN OrBit(p0, MapPermission_R) ELSE p0
    IN  IF HasBit(ph.flags, PF_W) THEN OrBit(p1, MapPermission_W) ELSE p1

\* The permission from_elf derives from a program header's flags.
ph_map_perm(ph) ==
    LET p0 == MapPermission_U
        p1 == IF HasBit(ph.flags, PF_R) THEN OrBit(p0, MapPermission_R) ELSE p0
        p2 == IF HasBit(ph.flags, PF_W) THEN OrBit(p1, MapPermission_W) ELSE p1
    IN  IF HasBit(ph.flags, PF_X) THEN OrBit(p2, MapPermission_X) ELSE p2

\* The loop over the program headers: s = [r, max_end_vpn].
RECURSIVE LoadHeaders(_, _, _)
LoadHeaders(s, phs, i) ==
    IF i > Len(phs) \/ ~s.r.ok
    THEN s
    ELSE LET ph == phs[i]
         IN  IF ph.type = "Load"
             THEN LET map_area == MapArea_new(ph.vaddr, ph.vaddr + ph.mem_size,
                                              "Framed", ph_map_perm(ph))
                  IN  LoadHeaders([r |-> push(s.r, map_area, ph.file_size),
                                   max_end_vpn |-> map_area.vpn_range.end],
                                  phs, i + 1)
             ELSE LoadHeaders(s, phs, i + 1)

\* MemorySet::from_elf: [ok, ms, alloc, user_sp, entry]
\* The value from_elf returns, r the memory set with all its segments.
from_elf_result(r, user_stack_top, entry) ==
    [ok |-> r.ok, ms |-> r.ms, alloc |-> r.alloc, user_sp |-> user_stack_top, entry |-> entry]

\* from_elf after the loop over the program headers left s: the user
\* stack above a guard page, then the trap context.
from_elf_stacks(s, entry) ==
    LET user_stack_bottom == VA_from_vpn(s.max_end_vpn) + PAGE_SIZE
        user_stack_top == user_stack_bottom + USER_STACK_SIZE
    IN  from_elf_result(
            push(push(s.r, MapArea_new(user_stack_bottom, user_stack_top, "Framed",
                                       MapPermission_R + MapPermission_W + MapPermission_U),
                      NoData),
                 MapArea_new(TRAP_CONTEXT, TRAMPOLINE, "Framed",
                             MapPermission_R + MapPermission_W), NoData),
            user_stack_top, entry)

\* assert_eq!(magic, ...): a bad magic number is a panic.
check_magic(r, elf) == [r EXCEPT !.ok = @ /\ elf.magic_ok]

from_elf(elf, a) ==
    from_elf_stacks(LoadHeaders([r |-> check_magic(map_trampoline(new_bare(a)), elf),
                                 max_end_vpn |-> 0],
                                elf.phs, 1),
                    elf.entry)

(***************************************************************************)
(* Frame contents.  memory[f] = [src, len]: the first len bytes of frame f *)
(* are the image bytes src .. src + len - 1, its other bytes are zero.     *)
(***************************************************************************)
Frames == 0 .. (PPN_from_pa(MEMORY_END) - 1)
Zeroed == [src |-> 0, len |-> 0]

IsFree(a, ppn) == ppn >= a.current \/ InRecycled(a, ppn)

\* frame_alloc zero-fills the frame it issues: the frames issued between
\* the allocator states a and a2 are zero.
zero_filled(mem, a, a2) ==
    [f \in Frames |-> IF IsFree(a, f) /\ ~IsFree(a2, f) THEN Zeroed ELSE mem[f]]

\* The bytes copy_data writes for program header ph: chunk j of the data
\* goes to the start of the frame of the segment's page j.
copy_data_bytes(mem, pt, area, ph) ==
    LET chunks == IF ph.file_size = 0 THEN {} ELSE 0 .. (VA_ceil(ph.file_size) - 1)
        page(j) == area.vpn_range.start + j
        hit(f) == {j \in chunks : IsMapped(pt, page(j)) /\ pt.leaves[page(j)].ppn = f}
    IN  [f \in Frames |->
            IF hit(f) = {}
            THEN mem[f]
            ELSE LET j == CHOOSE k \in hit(f) : TRUE
                     last_byte == IF ph.file_size < (j + 1) * PAGE_SIZE
                                  THEN ph.file_size
                                  ELSE (j + 1) * PAGE_SIZE
                 IN  [src |-> ph.offset + j * PAGE_SIZE, len |-> last_byte - j * PAGE_SIZE]]

\* The bytes from_elf leaves in memory: header i of phs is copied into
\* segment k of ms, the segment pushed for it.
RECURSIVE from_elf_bytes(_, _, _, _, _)
from_elf_bytes(mem, ms, phs, i, k) ==
    IF i > Len(phs) \/ k > Len(ms.areas)
    THEN mem
    ELSE IF phs[i].type = "Load"
         THEN from_elf_bytes(copy_data_bytes(mem, ms.page_table, ms.areas[k], phs[i]),
                             ms, phs, i + 1, k + 1)
         ELSE from_elf_bytes(mem, ms, phs, i + 1, k)

(***************************************************************************)
(* mmap and munmap (memory_set.rs:245-301).  [ok, ret, ms, alloc]: ok is   *)
(* FALSE when the call panicked, and then ret is not a return value.       *)
(***************************************************************************)
\* The permission mmap derives from port.
port_map_perm(port) ==
    LET p0 == MapPermission_U
        p1 == IF HasBit(port, 1) THEN OrBit(p0, MapPermission_R) ELSE p0
        p2 == IF HasBit(port, 2) THEN OrBit(p1, MapPermission_W) ELSE p1
    IN  IF HasBit(port, 4) THEN OrBit(p2, MapPermission_X) ELSE p2

\* len_n = (len - 1 + PAGE_SIZE) / PAGE_SIZE on usize
mmap_len_n(len) ==
    LET t1 == USub(len, 1)
        t2 == UAdd(t1.val, PAGE_SIZE)
    IN  [val |-> t2.val \div PAGE_SIZE, ovf |-> t1.ovf \/ t2.ovf]

mmap_rejects(ms, a, start, len_n, port) ==
    \/ page_offset(start) # 0
    \/ port \div 8 # 0
    \/ port % 8 = 0
    \/ get_num_empty_frame(a) < len_n
    \/ ~vpn_range_is_unused(ms.page_table, start \div PAGE_SIZE, len_n)

\* The call returns 0 with r = [ok, ms, alloc] the state it leaves.
returns_0(r) == [ok |-> r.ok, ret |-> 0, ms |-> r.ms, alloc |-> r.alloc]

mmap(ms, a, start, len, port, checks) ==
    LET n == mmap_len_n(len)
        len_n == n.val
        start_n == start \div PAGE_SIZE
    IN  IF checks /\ n.ovf
        THEN [ok |-> FALSE, ret |-> 0, ms |-> ms, alloc |-> a]
        ELSE IF mmap_rejects(ms, a, start, len_n, port)
             THEN [ok |-> TRUE, ret |-> 0 - 1, ms |-> ms, alloc |-> a]
             ELSE IF len = 0
                  THEN [ok |-> TRUE, ret |-> 0, ms |-> ms, alloc |-> a]
                  ELSE returns_0(insert_framed_area([ok |-> TRUE, ms |-> ms, alloc |-> a],
                                                    VA_from_vpn(start_n),
                                                    VA_from_vpn(len_n + start_n),
                                                    port_map_perm(port)))

\* munmap's validation without the test of len (memory_set.rs:284).
munmap_rejects_len_unchecked(ms, start, len) ==
    \/ start % PAGE_SIZE # 0
    \/ ~vpn_range_is_used(ms.page_table, start, len)

munmap_rejects(ms, start, len) ==
    \/ start % PAGE_SIZE # 0
    \/ ~vpn_range_is_used(ms.page_table, start, len)
    \/ len % PAGE_SIZE # 0

\* munmap_matches that accepts every segment lying inside the request.
munmap_matches_inside(map_area, start_va, end_va) ==
    /\ start_va <= map_area.vpn_range.start
    /\ map_area.vpn_range.end <= end_va

\* The condition of the loop body at memory_set.rs:292-293.
munmap_matches(map_area, start_va, end_va) ==
    /\ map_area.vpn_range.start = start_va
    /\ map_area.vpn_range.end <= end_va

\* The loop at memory_set.rs:291-298: the first matching segment is unmapped
\* in place; the segment list keeps its elements.
\* area.unmap through the iter_mut reference left c: segment i is updated
\* where it stands, and 0 is returned.
unmapped_in_place(ms, i, c) ==
    [ok |-> c.ok, ret |-> 0,
     ms |-> [page_table |-> c.pt, areas |-> [ms.areas EXCEPT ![i] = c.area]],
     alloc |-> c.alloc]

munmap_loop(ms, a, start_va, end_va) ==
    LET hits == {i \in 1 .. Len(ms.areas) : munmap_matches(ms.areas[i], start_va, end_va)}
    IN  IF hits = {}
        THEN [ok |-> TRUE, ret |-> 0, ms |-> ms, alloc |-> a]
        ELSE LET i == CHOOSE j \in hits : \A k \in hits : j <= k
             IN  unmapped_in_place(ms, i,
                                   MapArea_unmap([ok |-> TRUE, pt |-> ms.page_table,
                                                  alloc |-> a, area |-> ms.areas[i]]))

munmap(ms, a, start, len, checks) ==
    IF munmap_rejects(ms, start, len)
    THEN [ok |-> TRUE, ret |-> 0 - 1, ms |-> ms, alloc |-> a]
    ELSE LET start_va == start \div PAGE_SIZE
             e == UAdd(len, start)
         IN  IF checks /\ e.ovf
             THEN [ok |-> FALSE, ret |-> 0, ms |-> ms, alloc |-> a]
             ELSE munmap_loop(ms, a, start_va, e.val \div PAGE_SIZE)

(***************************************************************************)
(* Task construction (task/task.rs:27-63).                                 *)
(***************************************************************************)
\* kernel_stack_position(app_id): [bottom, top]
kernel_stack_position(app_id) ==
    LET top == TRAMPOLINE - app_id * (KERNEL_STACK_SIZE + PAGE_SIZE)
    IN  [bottom |-> top - KERNEL_STACK_SIZE, top |-> top]

\* TaskControlBlock::new: [ok, tcb, kernel, alloc]
\* The task control block and the kernel space k = [ok, ms, alloc] with
\* the task's kernel stack.
task_control_block(fe, k) ==
    [ok |-> k.ok,
     tcb |-> [memory_set |-> fe.ms,
              trap_cx_ppn |-> translate(fe.ms.page_table, VA_floor(TRAP_CONTEXT)).ppn,
              base_size |-> fe.user_sp],
     kernel |-> k.ms,
     alloc |-> k.alloc]

\* TaskControlBlock::new after from_elf returned fe; translate(..).unwrap()
\* panics when the trap context is not mapped.
with_kernel_stack(fe, app_id, kernel) ==
    LET have_cx == fe.ok /\ IsMapped(fe.ms.page_table, VA_floor(TRAP_CONTEXT))
        ks == kernel_stack_position(app_id)
    IN  task_control_block(
            fe,
            insert_framed_area([ok |-> have_cx, ms |-> kernel, alloc |-> fe.alloc],
                               ks.bottom, ks.top, MapPermission_R + MapPermission_W))

TaskControlBlock_new(elf, app_id, kernel, a) ==
    with_kernel_stack(from_elf(elf, a), app_id, kernel)

(***************************************************************************)
(* The kernel as a state machine.                                          *)
(***************************************************************************)
VARIABLES
    overflow_checks,  \* whether the build panics on integer overflow (fixed)
    frame_allocator,  \* FRAME_ALLOCATOR
    booted,           \* mm::init has run
    kernel_space,     \* KERNEL_SPACE
    tasks,            \* the task control blocks, app_id + 1 is the index
    memory,           \* the contents of the physical frames
    heap,             \* HEAP_ALLOCATOR has been initialised
    pc,               \* the number of statements of mm::init that have run
    kernel_space_once,\* the lazy cell of KERNEL_SPACE: "INCOMPLETE" until its
                      \* first dereference, then "COMPLETE" or "PANICKED"
    satp,             \* the translation-control register
    halted,           \* the kernel panicked in the last operation
    last              \* the last operation: [op, task, start, len, port, ret];
                      \* ret is its return value unless it panicked

vars == << overflow_checks, frame_allocator, booted, kernel_space, tasks, memory, heap, pc,
          kernel_space_once, satp, halted, last >>

EmptyMemorySet ==
    [page_table |-> [nodes |-> << >>, leaves |-> [v \in VPNs |-> PTE_empty]],
     areas |-> << >>]

\* Requests user programs issue: <<start, len, port>> for mmap and
\* <<start, len>> for munmap.  MmapBase is the first page served by the
\* second leaf node of the page table.
MmapBase == Fan * PAGE_SIZE
MmapRequests ==
    { << MmapBase, PAGE_SIZE, 1 >>,
      << MmapBase, 2 * PAGE_SIZE, 6 >>,
      << MmapBase, PAGE_SIZE + 1, 1 >>,
      << MmapBase + PAGE_SIZE, 1, 6 >>,
      << MmapBase, 0, 1 >>,
      << MmapBase + 1, 0, 1 >>,
      << MmapBase + 1, PAGE_SIZE, 1 >>,
      << MmapBase, PAGE_SIZE, 0 >>,
      << MmapBase, PAGE_SIZE, 9 >>,
      << MmapBase, PAGE_SIZE, 8 >>,
      << TRAMPOLINE, PAGE_SIZE, 1 >>,
      << MmapBase, USIZE_MAX, 1 >> }
MunmapRequests ==
    { << MmapBase, PAGE_SIZE >>,
      << MmapBase, 2 * PAGE_SIZE >>,
      << MmapBase + PAGE_SIZE, PAGE_SIZE >>,
      << MmapBase + 1, PAGE_SIZE >>,
      << MmapBase, 1 >>,
      << TRAP_CONTEXT, PAGE_SIZE >>,
      << TRAP_CONTEXT, 2 * PAGE_SIZE >>,
      << TRAMPOLINE, PAGE_SIZE >> }

Op(op, task, start, len, port, ret) ==
    [op |-> op, task |-> task, start |-> start, len |-> len, port |-> port, ret |-> ret]

\* PageTable::token: the paging mode tag and the frame of the root node.
token(pt) == [mode |-> 8, ppn |-> pt.nodes[<< >>]]

\* The register at reset: translation off.
satp_bare == [mode |-> 0, ppn |-> 0]

\* The statements of mm::init in program order (mm/mod.rs:26-28).
init_steps_kernel_space_early ==
    << "init_heap", "KERNEL_SPACE.lock().activate", "init_frame_allocator" >>

init_steps == << "init_heap", "init_frame_allocator", "KERNEL_SPACE.lock().activate" >>

\* Dereferencing the lazy static KERNEL_SPACE (memory_set.rs:30-34) with the
\* frame allocator a: the first dereference runs MemorySet::new_kernel.
\* [ok, ms, alloc]
KERNEL_SPACE_deref(once, kernel, a) ==
    IF once = "COMPLETE" THEN [ok |-> TRUE, ms |-> kernel, alloc |-> a] ELSE new_kernel(a)

Init ==
    /\ overflow_checks \in BOOLEAN
    /\ frame_allocator = [current |-> 0, end |-> 0, recycled |-> << >>]
    /\ booted = FALSE
    /\ kernel_space = EmptyMemorySet
    /\ tasks = << >>
    /\ memory = [f \in Frames |-> Zeroed]
    /\ heap = FALSE
    /\ pc = 0
    /\ kernel_space_once = "INCOMPLETE"
    /\ satp = satp_bare
    /\ halted = FALSE
    /\ last = Op("none", 0, 0, 0, 0, 0)

\* mm::init (mm/mod.rs:25-29): the frame allocator is initialised, then the
\* first lock of KERNEL_SPACE builds the kernel address space.
Boot ==
    /\ ~halted
    /\ ~booted
    /\ \E r \in {new_kernel(init_frame_allocator)} :
           /\ frame_allocator' = r.alloc
           /\ kernel_space' = r.ms
           /\ memory' = zero_filled(memory, init_frame_allocator, r.alloc)
           /\ booted' = TRUE
           /\ kernel_space_once' = IF r.ok THEN "COMPLETE" ELSE "PANICKED"
           /\ satp' = IF r.ok THEN token(r.ms.page_table) ELSE satp
           /\ halted' = ~r.ok
           /\ last' = Op("init", 0, 0, 0, 0, 0)
    /\ heap' = TRUE
    /\ pc' = Len(init_steps)
    /\ UNCHANGED << overflow_checks, tasks >>

\* heap_allocator::init_heap() (mm/mod.rs:26).
InitHeap ==
    /\ ~halted
    /\ pc < Len(init_steps)
    /\ init_steps[pc + 1] = "init_heap"
    /\ heap' = TRUE
    /\ pc' = pc + 1
    /\ booted' = (pc' = Len(init_steps))
    /\ last' = Op("init_heap", 0, 0, 0, 0, 0)
    /\ UNCHANGED << overflow_checks, frame_allocator, kernel_space, tasks, memory,
                    kernel_space_once, satp, halted >>

\* frame_allocator::init_frame_allocator() (mm/mod.rs:27).
InitFrameAllocator ==
    /\ ~halted
    /\ pc < Len(init_steps)
    /\ init_steps[pc + 1] = "init_frame_allocator"
    /\ frame_allocator' = init_frame_allocator
    /\ pc' = pc + 1
    /\ booted' = (pc' = Len(init_steps))
    /\ last' = Op("init_frame_allocator", 0, 0, 0, 0, 0)
    /\ UNCHANGED << overflow_checks, kernel_space, tasks, memory, heap, kernel_space_once,
                    satp, halted >>

\* KERNEL_SPACE.lock().activate() (mm/mod.rs:28): the lock dereferences the
\* lazy static, activate (memory_set.rs:233-239) writes the token to satp.
KernelSpaceActivate ==
    /\ ~halted
    /\ pc < Len(init_steps)
    /\ init_steps[pc + 1] = "KERNEL_SPACE.lock().activate"
    /\ \E r \in {KERNEL_SPACE_deref(kernel_space_once, kernel_space, frame_allocator)} :
           /\ frame_allocator' = r.alloc
           /\ kernel_space' = r.ms
           /\ memory' = zero_filled(memory, frame_allocator, r.alloc)
           /\ kernel_space_once' = IF r.ok THEN "COMPLETE" ELSE "PANICKED"
           /\ satp' = IF r.ok THEN token(r.ms.page_table) ELSE satp
           /\ halted' = ~r.ok
    /\ pc' = pc + 1
    /\ booted' = (pc' = Len(init_steps))
    /\ last' = Op("activate", 0, 0, 0, 0, 0)
    /\ UNCHANGED << overflow_checks, tasks, heap >>

\* TaskControlBlock::new for the next application.
TaskNew(elf, max_tasks) ==
    /\ ~halted
    /\ booted
    /\ Len(tasks) < max_tasks
    /\ \E r \in {TaskControlBlock_new(elf, Len(tasks), kernel_space, frame_allocator)} :
           /\ frame_allocator' = r.alloc
           /\ kernel_space' = r.kernel
           /\ tasks' = IF r.ok THEN Append(tasks, r.tcb) ELSE tasks
           /\ memory' = from_elf_bytes(zero_filled(memory, frame_allocator, r.alloc),
                                       r.tcb.memory_set, elf.phs, 1, 1)
           /\ halted' = ~r.ok
           /\ last' = Op("new", Len(tasks) + 1, 0, 0, 0, 0)
    /\ UNCHANGED << overflow_checks, booted, heap, pc, kernel_space_once, satp >>

\* sys_mmap (syscall/process.rs:57-66) on the calling task's address space.
SysMmap(t, start, len, port) ==
    /\ ~halted
    /\ t \in 1 .. Len(tasks)
    /\ Len(tasks[t].memory_set.areas) < MaxAreas
    /\ \E r \in {mmap(tasks[t].memory_set, frame_allocator, start, len, port,
                       overflow_checks)} :
           /\ frame_allocator' = r.alloc
           /\ tasks' = [tasks EXCEPT ![t].memory_set = r.ms]
           /\ memory' = zero_filled(memory, frame_allocator, r.alloc)
           /\ halted' = ~r.ok
           /\ last' = Op("mmap", t, start, len, port, r.ret)
    /\ UNCHANGED << overflow_checks, booted, kernel_space, heap, pc, kernel_space_once, satp >>

\* sys_munmap (syscall/process.rs:68-70) on the calling task's address space.
SysMunmap(t, start, len) ==
    /\ ~halted
    /\ t \in 1 .. Len(tasks)
    /\ \E r \in {munmap(tasks[t].memory_set, frame_allocator, start, len,
                         overflow_checks)} :
           /\ frame_allocator' = r.alloc
           /\ tasks' = [tasks EXCEPT ![t].memory_set = r.ms]
           /\ halted' = ~r.ok
           /\ last' = Op("munmap", t, start, len, 0, r.ret)
    /\ UNCHANGED << overflow_checks, booted, kernel_space, memory, heap, pc,
                    kernel_space_once, satp >>

\* One application issuing the full request sets.
Next ==
    \/ Boot
    \/ \E elf \in Images : TaskNew(elf, 1)
    \/ \E q \in MmapRequests : SysMmap(1, q[1], q[2], q[3])
    \/ \E q \in MunmapRequests : SysMunmap(1, q[1], q[2])

Spec == Init /\ [][Next]_vars

\* NumTasks applications sharing the frame pool, each issuing the plain
\* requests.
SharedMmapRequests ==
    { << MmapBase, PAGE_SIZE, 1 >>,
      << MmapBase, 2 * PAGE_SIZE, 6 >>,
      << MmapBase + PAGE_SIZE, 1, 6 >> }
SharedMunmapRequests ==
    { << MmapBase, PAGE_SIZE >>,
      << MmapBase, 2 * PAGE_SIZE >>,
      << MmapBase + PAGE_SIZE, PAGE_SIZE >> }

NextShared ==
    \/ Boot
    \/ TaskNew(ElfOneSegment, NumTasks)
    \/ \E t \in 1 .. NumTasks, q \in SharedMmapRequests : SysMmap(t, q[1], q[2], q[3])
    \/ \E t \in 1 .. NumTasks, q \in SharedMunmapRequests : SysMunmap(t, q[1], q[2])

SpecShared == Init /\ [][NextShared]_vars

(***************************************************************************)
(* Properties.                                                             *)
(***************************************************************************)
\* The exact number of pages a request of len bytes covers.
CeilPages(len) == (len + PAGE_SIZE - 1) \div PAGE_SIZE

\* The pages of the request [start, start + len), rounded up.
RequestPages(start, len) ==
    (start \div PAGE_SIZE) .. ((start \div PAGE_SIZE) + CeilPages(len) - 1)

FreeFrames(a) == get_num_empty_frame(a)

\* The validation failures of mmap, as the interface states them.
MmapValidationFails(ms, a, start, len, port) ==
    \/ start % PAGE_SIZE # 0
    \/ port \div 8 # 0
    \/ port % 8 = 0
    \/ FreeFrames(a) < CeilPages(len)
    \/ \E v \in RequestPages(start, len) : IsMapped(ms.page_table, v)

\* C1: every mmap call whose validation fails (start not page-aligned, a
\* port bit outside the three low bits, the three low bits all clear, fewer
\* free frames than the rounded-up page count, or a page of the range
\* already mapped) returns -1 and leaves the page table, the segment list
\* and the free-frame count as they were.
C1_MmapFailureChangesNothing ==
    [][ ( /\ last'.op = "mmap"
          /\ MmapValidationFails(tasks[last'.task].memory_set, frame_allocator,
                                 last'.start, last'.len, last'.port) )
        => ( /\ ~halted'
             /\ last'.ret = 0 - 1
             /\ tasks'[last'.task].memory_set = tasks[last'.task].memory_set
             /\ FreeFrames(frame_allocator') = FreeFrames(frame_allocator) ) ]_vars

\* A step that is a call of op by some task.
Called(op) == last'.op = op

\* The caller's address space before and after the call of a step.
Before == tasks[last'.task].memory_set
After == tasks'[last'.task].memory_set

\* Segment i of ms maps none of its pages.
SegmentUnmapped(ms, seg) ==
    \A v \in seg.vpn_range.start .. (seg.vpn_range.end - 1) : ~IsMapped(ms.page_table, v)

\* The leaf flags that port asks for: V and U, and R, W, X per bit 0, 1, 2.
PortFlags(port) ==
    PTE_V + PTE_U
    + (IF port % 2 = 1 THEN PTE_R ELSE 0)
    + (IF (port \div 2) % 2 = 1 THEN PTE_W ELSE 0)
    + (IF (port \div 4) % 2 = 1 THEN PTE_X ELSE 0)

\* C2: an mmap call with len > 0 that returns 0 has appended exactly one
\* Framed segment whose range is [start/PAGE_SIZE, start/PAGE_SIZE +
\* ceil(len/PAGE_SIZE)), and every page of that range then translates to a
\* valid entry with U set and R, W, X set exactly as port bits 0, 1, 2.
C2_MmapSuccessMapsRange ==
    [][ ( Called("mmap") /\ last'.len > 0 /\ ~halted' /\ last'.ret = 0 )
        => ( /\ Len(After.areas) = Len(Before.areas) + 1
             /\ SubSeq(After.areas, 1, Len(Before.areas)) = Before.areas
             /\ LET seg == After.areas[Len(After.areas)]
                IN  /\ seg.map_type = "Framed"
                    /\ seg.vpn_range.start = last'.start \div PAGE_SIZE
                    /\ seg.vpn_range.end = (last'.start \div PAGE_SIZE) + CeilPages(last'.len)
             /\ \A v \in RequestPages(last'.start, last'.len) :
                   /\ IsMapped(After.page_table, v)
                   /\ translate(After.page_table, v).flags = PortFlags(last'.port) ) ]_vars

\* C3: when mmap(start, len, port) with page-aligned start and page-multiple
\* len > 0 has returned 0, a munmap(start, len) issued next on the same
\* address space returns 0 and leaves no page of the range mapped.
C3_MmapMunmapRoundTrip ==
    [][ ( /\ last.op = "mmap" /\ ~halted /\ last.ret = 0
          /\ last.start % PAGE_SIZE = 0 /\ last.len % PAGE_SIZE = 0 /\ last.len > 0
          /\ Called("munmap")
          /\ last'.task = last.task /\ last'.start = last.start /\ last'.len = last.len )
        => ( /\ ~halted'
             /\ last'.ret = 0
             /\ \A v \in RequestPages(last'.start, last'.len) :
                   ~IsMapped(After.page_table, v) ) ]_vars

\* The segments of ms that a munmap(start, len) request matches: the start
\* page is the request's, the end is not beyond the request's end.
MatchingSegments(ms, start, len) ==
    {i \in 1 .. Len(ms.areas) :
        /\ ms.areas[i].vpn_range.start = start \div PAGE_SIZE
        /\ ms.areas[i].vpn_range.end <= (start + len) \div PAGE_SIZE}

\* seq without its element i
RemoveAt(seq, i) == SubSeq(seq, 1, i - 1) \o SubSeq(seq, i + 1, Len(seq))

\* C4: a munmap call that returns 0 and matched a segment has unmapped the
\* first matching segment and removed it from the segment list.
C4_MunmapRemovesSegment ==
    [][ ( /\ Called("munmap") /\ ~halted' /\ last'.ret = 0
          /\ MatchingSegments(Before, last'.start, last'.len) # {} )
        => LET hits == MatchingSegments(Before, last'.start, last'.len)
               i == CHOOSE j \in hits : \A k \in hits : j <= k
           IN  /\ SegmentUnmapped(After, Before.areas[i])
               /\ Len(After.areas) = Len(Before.areas) - 1
               /\ \A k \in 1 .. Len(After.areas) :
                     After.areas[k].vpn_range = RemoveAt(Before.areas, i)[k].vpn_range ]_vars

\* The request [start, start + len) lies inside a strictly larger segment
\* of ms, starting at its first page or later.
InsideLargerSegment(ms, start, len) ==
    \E i \in 1 .. Len(ms.areas) :
        /\ ms.areas[i].vpn_range.start <= start \div PAGE_SIZE
        /\ (start + len) \div PAGE_SIZE <= ms.areas[i].vpn_range.end
        /\ ms.areas[i].vpn_range.end - ms.areas[i].vpn_range.start > len \div PAGE_SIZE

\* C5: a munmap call that matches no segment returns -1; stated for the
\* case the claim names: every page of the range is mapped, but only as
\* the interior or a proper prefix of a larger segment.
C5_MunmapWithoutMatchFails ==
    [][ ( /\ Called("munmap")
          /\ last'.len > 0
          /\ MatchingSegments(Before, last'.start, last'.len) = {}
          /\ \A v \in RequestPages(last'.start, last'.len) : IsMapped(Before.page_table, v)
          /\ InsideLargerSegment(Before, last'.start, last'.len) )
        => ( ~halted' /\ last'.ret = 0 - 1 ) ]_vars

\* The validation failures of munmap, as the interface states them.
MunmapValidationFails(ms, start, len) ==
    \/ start % PAGE_SIZE # 0
    \/ len % PAGE_SIZE # 0
    \/ \E v \in RequestPages(start, len) : ~IsMapped(ms.page_table, v)

\* C6: a munmap call with start or len not a multiple of the page size, or
\* with a page of its range not mapped, returns -1 and changes neither the
\* page table, the segment list nor the free-frame count.
C6_MunmapFailureChangesNothing ==
    [][ ( Called("munmap") /\ MunmapValidationFails(Before, last'.start, last'.len) )
        => ( /\ ~halted'
             /\ last'.ret = 0 - 1
             /\ After = Before
             /\ FreeFrames(frame_allocator') = FreeFrames(frame_allocator) ) ]_vars

\* C6 witness: munmap was refused for its length alone (start aligned and
\* every page of the range mapped).
C6_Witness ==
    /\ last.op = "munmap" /\ ~halted /\ last.ret = 0 - 1
    /\ last.start % PAGE_SIZE = 0
    /\ last.len % PAGE_SIZE # 0
    /\ \A v \in RequestPages(last.start, last.len) :
          IsMapped(tasks[last.task].memory_set.page_table, v)

\* C7: mmap(start, 0, port) with page-aligned start and a valid port
\* returns 0 without a fault and creates no segment and no mapping.
C7_MmapZeroLength ==
    [][ ( /\ Called("mmap") /\ last'.len = 0
          /\ last'.start % PAGE_SIZE = 0
          /\ last'.port \div 8 = 0 /\ last'.port % 8 # 0 )
        => ( ~halted' /\ last'.ret = 0 /\ After = Before ) ]_vars

(***************************************************************************)
(* Frames and address spaces as a whole.  Address space 0 is the kernel's, *)
(* address space t > 0 is task t's.                                        *)
(***************************************************************************)
SpaceIds == 0 .. Len(tasks)
Space(s) == IF s = 0 THEN kernel_space ELSE tasks[s].memory_set

InSegment(seg, v) == seg.vpn_range.start <= v /\ v < seg.vpn_range.end

\* The pages of ms with a live frame-backed mapping: mapped, not the
\* trampoline, not part of an Identical segment.
FramedPages(ms) ==
    {v \in VPNs :
        /\ IsMapped(ms.page_table, v)
        /\ v # VA_floor(TRAMPOLINE)
        /\ \A i \in 1 .. Len(ms.areas) :
              ms.areas[i].map_type = "Identical" => ~InSegment(ms.areas[i], v)}

FramedMappings == UNION { {<< s, v >> : v \in FramedPages(Space(s))} : s \in SpaceIds }
MappedFrame(m) == Space(m[1]).page_table.leaves[m[2]].ppn

\* Every owner of a frame, with the frame: node path of a page table
\* (<< s, 0, path >>), or page v of segment i (<< s, i, << v >> >>).
OwnedFrames ==
    UNION { {<< << s, 0, path >>, Space(s).page_table.nodes[path] >> :
                path \in DOMAIN Space(s).page_table.nodes}
            \cup
            UNION { {<< << s, i, << v >> >>, Space(s).areas[i].data_frames[v] >> :
                        v \in DOMAIN Space(s).areas[i].data_frames} :
                    i \in 1 .. Len(Space(s).areas) }
          : s \in SpaceIds }

\* C8: no frame backs two live frame-backed mappings, in one address space
\* or in two; no frame has two owners; and no frame that is mapped or
\* owned is free in the allocator, so that a frame is issued again only
\* after its owner released it.
C8_NoFrameSharedOrReissued ==
    LET mappings == FramedMappings
        owned == OwnedFrames
        mapped_frames == {MappedFrame(m) : m \in mappings}
        owned_frames == {o[2] : o \in owned}
    IN  /\ Cardinality(mapped_frames) = Cardinality(mappings)
        /\ Cardinality(owned_frames) = Cardinality(owned)
        /\ \A f \in mapped_frames \cup owned_frames : ~IsFree(frame_allocator, f)

\* Segment seg of a task was released: its pages are unmapped and it owns
\* no frame.
Released(ms, seg) ==
    /\ seg.vpn_range.start < seg.vpn_range.end
    /\ seg.map_type = "Framed"
    /\ DOMAIN seg.data_frames = {}
    /\ SegmentUnmapped(ms, seg)

\* C8 witness: one task has released a segment, the other task's mmap has
\* just succeeded, and no released frame is left in the allocator: the
\* frames the first task released back the second task's pages.
C8_Witness ==
    /\ Len(tasks) = 2
    /\ last.op = "mmap" /\ ~halted /\ last.ret = 0
    /\ IsMapped(tasks[last.task].memory_set.page_table, MmapBase \div PAGE_SIZE)
    /\ \E t \in 1 .. 2 :
          /\ t # last.task
          /\ \E i \in 1 .. Len(tasks[t].memory_set.areas) :
                Released(tasks[t].memory_set, tasks[t].memory_set.areas[i])
    /\ frame_allocator.recycled = << >>

TrampolineInPlace(ms) ==
    /\ translate(ms.page_table, VA_floor(TRAMPOLINE))
         = [ppn |-> PPN_from_pa(strampoline), flags |-> PTE_V + PTE_R + PTE_X]
    /\ \A i \in 1 .. Len(ms.areas) : ~InSegment(ms.areas[i], VA_floor(TRAMPOLINE))

\* C9: in the kernel address space and in every task's address space the
\* trampoline page is mapped to the page of strampoline with R|X, and no
\* segment of the segment list contains it.
C9_TrampolineInPlace ==
    /\ (booted /\ ~(halted /\ last.op = "init")) => TrampolineInPlace(kernel_space)
    /\ \A t \in 1 .. Len(tasks) : TrampolineInPlace(tasks[t].memory_set)

\* C9 witness: a munmap naming the trampoline page has returned.
C9_Witness ==
    /\ last.op = "munmap" /\ ~halted /\ last.ret = 0
    /\ last.start = TRAMPOLINE

\* C10: the segments of a task's segment list have pairwise disjoint
\* ranges.
C10_SegmentsDisjoint ==
    \A t \in 1 .. Len(tasks) :
        LET areas == tasks[t].memory_set.areas
        IN  \A i \in 1 .. Len(areas) : \A j \in 1 .. Len(areas) :
                i < j => \A v \in VPNs : ~(InSegment(areas[i], v) /\ InSegment(areas[j], v))

(***************************************************************************)
(* Segments and the page table.                                            *)
(***************************************************************************)
\* Page v of ms has a frame held by one of its Framed segments.
HoldsFrame(ms, v) ==
    \E i \in 1 .. Len(ms.areas) :
        ms.areas[i].map_type = "Framed" /\ v \in DOMAIN ms.areas[i].data_frames

\* In ms a frame is held for exactly the pages with a live frame-backed
\* mapping, and a page translates to the frame held for it.
OwnershipConsistent(ms) ==
    /\ \A v \in VPNs : HoldsFrame(ms, v) <=> v \in FramedPages(ms)
    /\ \A i \in 1 .. Len(ms.areas) :
          \A v \in DOMAIN ms.areas[i].data_frames :
              translate(ms.page_table, v).ppn = ms.areas[i].data_frames[v]

\* C11: in every state reached by mmap and munmap calls, a Framed segment
\* holds a frame for page v if and only if v is mapped in the page table,
\* and then v translates to that frame; so no frame stays held for a page
\* munmap has unmapped.
C11_OwnershipConsistent ==
    ~halted => \A t \in 1 .. Len(tasks) : OwnershipConsistent(tasks[t].memory_set)

(***************************************************************************)
(* Loading of ELF images.  ElfImages: every image of one loadable header   *)
(* drawn from the sets below, and every image of two headers of            *)
(* PairHeaders, in both orders.                                            *)
(***************************************************************************)
ProgramHeader(type, vaddr, mem_size, file_size, offset, flags) ==
    [type |-> type, vaddr |-> vaddr, mem_size |-> mem_size, file_size |-> file_size,
     offset |-> offset, flags |-> flags]

SingleHeaders ==
    { ProgramHeader("Load", vaddr, mem_size, file_size, 64, flags) :
        vaddr \in {0, PAGE_SIZE \div 2, 2 * PAGE_SIZE},
        mem_size \in {PAGE_SIZE, PAGE_SIZE + 8},
        file_size \in {8, PAGE_SIZE},
        flags \in 1 .. (PF_R + PF_W + PF_X) }

PairHeaders ==
    { ProgramHeader("Load", 0, PAGE_SIZE, PAGE_SIZE, 64, PF_R + PF_X),
      ProgramHeader("Load", 3 * PAGE_SIZE, PAGE_SIZE, 8, 64 + PAGE_SIZE, PF_R + PF_W),
      ProgramHeader("Note", PAGE_SIZE, PAGE_SIZE, 8, 32, PF_R) }

ElfImages ==
    { [magic_ok |-> TRUE, entry |-> h.vaddr, phs |-> << h >>] : h \in SingleHeaders }
    \cup
    { [magic_ok |-> TRUE, entry |-> 0, phs |-> << h1, h2 >>] :
        h1 \in PairHeaders, h2 \in PairHeaders }

\* The kernel loading one application, whatever its image.
NextElf ==
    \/ Boot
    \/ \E elf \in ElfImages : TaskNew(elf, 1)

SpecElf == Init /\ [][NextElf]_vars

\* The pages of a loadable header.
HeaderPages(ph) == VA_floor(ph.vaddr) .. (VA_ceil(ph.vaddr + ph.mem_size) - 1)

LoadHeaderIndexes(elf) == {i \in 1 .. Len(elf.phs) : elf.phs[i].type = "Load"}

\* The loadable headers of elf cover pairwise disjoint pages.
DisjointHeaders(elf) ==
    \A i \in LoadHeaderIndexes(elf) : \A j \in LoadHeaderIndexes(elf) :
        i # j => HeaderPages(elf.phs[i]) \cap HeaderPages(elf.phs[j]) = {}

\* The highest end page over the loadable headers of elf.
HighestEnd(elf) ==
    LET ends == {VA_ceil(elf.phs[i].vaddr + elf.phs[i].mem_size) : i \in LoadHeaderIndexes(elf)}
    IN  IF ends = {} THEN 0 ELSE CHOOSE e \in ends : \A x \in ends : x <= e

\* The address space and the user stack pointer of the task just created.
NewSpace == tasks'[Len(tasks')].memory_set
NewUserSp == tasks'[Len(tasks')].base_size

\* C12: for every image whose loadable headers do not overlap, in whatever
\* order they come, from_elf completes and places the user stack one page
\* above the highest end page of the loaded segments: that guard page is
\* unmapped, the stack segment starts right after it and overlaps no loaded
\* segment, and the returned stack top is the stack bottom plus
\* USER_STACK_SIZE.
C12_UserStackAboveSegments ==
    [][ \A elf \in ElfImages :
          ( TaskNew(elf, 1) /\ DisjointHeaders(elf) /\ LoadHeaderIndexes(elf) # {} )
          => ( /\ ~halted'
               /\ LET top == HighestEnd(elf)
                      stack == NewSpace.areas[Cardinality(LoadHeaderIndexes(elf)) + 1]
                  IN  /\ ~IsMapped(NewSpace.page_table, top)
                      /\ stack.vpn_range.start = top + 1
                      /\ stack.vpn_range.end = top + 1 + VA_ceil(USER_STACK_SIZE)
                      /\ \A i \in LoadHeaderIndexes(elf) : \A v \in HeaderPages(elf.phs[i]) :
                            ~InSegment(stack, v)
                      /\ NewUserSp = (top + 1) * PAGE_SIZE + USER_STACK_SIZE ) ]_vars

\* The byte read at virtual address va of ms: the index of an image byte,
\* ZeroByte, or NoByte when the page is not mapped.
ZeroByte == 0 - 1
NoByte == 0 - 2
ByteAt(ms, mem, va) ==
    IF ~IsMapped(ms.page_table, va \div PAGE_SIZE)
    THEN NoByte
    ELSE LET frame == mem[ms.page_table.leaves[va \div PAGE_SIZE].ppn]
         IN  IF va % PAGE_SIZE < frame.len THEN frame.src + (va % PAGE_SIZE) ELSE ZeroByte

\* The bytes of header ph read back from ms as the image has them: image
\* byte offset + i at vaddr + i below the file size, zero from there up to
\* the memory size.
HeaderLoaded(ms, mem, ph) ==
    /\ \A i \in 0 .. (ph.file_size - 1) : ByteAt(ms, mem, ph.vaddr + i) = ph.offset + i
    /\ \A i \in ph.file_size .. (ph.mem_size - 1) : ByteAt(ms, mem, ph.vaddr + i) = ZeroByte

\* C13: after from_elf has loaded an image, every loadable header's bytes
\* read back from the new address space as the image has them, also when
\* the header's virtual address is not page-aligned.
C13_ImageBytesLoaded ==
    [][ \A elf \in ElfImages :
          ( TaskNew(elf, 1) /\ DisjointHeaders(elf) /\ ~halted' )
          => \A i \in LoadHeaderIndexes(elf) : HeaderLoaded(NewSpace, memory', elf.phs[i]) ]_vars

IsLoad(ph) == ph.type = "Load"

\* The permission a header's flags ask for: U, and R, W, X as the flags
\* have read, write, execute.
HeaderPermission(flags) ==
    MapPermission_U
    + (IF (flags \div PF_R) % 2 = 1 THEN MapPermission_R ELSE 0)
    + (IF (flags \div PF_W) % 2 = 1 THEN MapPermission_W ELSE 0)
    + (IF (flags \div PF_X) % 2 = 1 THEN MapPermission_X ELSE 0)

\* The segments from_elf leaves for elf in ms: one Framed segment per
\* loadable header, in the headers' order, then the user stack, then the
\* trap context.
ElfSegments(ms, elf) ==
    LET loads == SelectSeq(elf.phs, IsLoad)
        n == Len(loads)
    IN  /\ Len(ms.areas) = n + 2
        /\ \A k \in 1 .. n :
              /\ ms.areas[k].map_type = "Framed"
              /\ ms.areas[k].vpn_range.start = VA_floor(loads[k].vaddr)
              /\ ms.areas[k].vpn_range.end = VA_ceil(loads[k].vaddr + loads[k].mem_size)
              /\ ms.areas[k].map_perm = HeaderPermission(loads[k].flags)
        /\ ms.areas[n + 1].map_type = "Framed"
        /\ ms.areas[n + 1].map_perm = MapPermission_R + MapPermission_W + MapPermission_U
        /\ ms.areas[n + 2].map_type = "Framed"
        /\ ms.areas[n + 2].vpn_range.start = TRAP_CONTEXT \div PAGE_SIZE
        /\ ms.areas[n + 2].vpn_range.end = TRAMPOLINE \div PAGE_SIZE
        /\ ms.areas[n + 2].map_perm = MapPermission_R + MapPermission_W

\* C14: from_elf creates exactly one Framed segment per loadable header and
\* none for a header of another type, each with U and with R, W, X exactly
\* as the header's flags; then the user stack with R|W|U; then the trap
\* context over [TRAP_CONTEXT, TRAMPOLINE) with R|W and without U.
C14_ElfSegments ==
    [][ \A elf \in ElfImages :
          ( TaskNew(elf, 1) /\ ~halted' ) => ElfSegments(NewSpace, elf) ]_vars

\* C14 witness: an application was loaded from an image of two loadable
\* headers with different permissions.
C14_Witness ==
    /\ Len(tasks) = 1 /\ ~halted /\ last.op = "new"
    /\ Len(tasks[1].memory_set.areas) = 4
    /\ tasks[1].memory_set.areas[1].map_perm # tasks[1].memory_set.areas[2].map_perm

(***************************************************************************)
(* The kernel address space.                                               *)
(***************************************************************************)
\* The pages of the region [start_va, end_va).
RegionPages(start_va, end_va) == VA_floor(start_va) .. (VA_ceil(end_va) - 1)

KernelFlags(v) == translate(kernel_space.page_table, v).flags

\* C15: once new_kernel has built the kernel address space, every page of
\* .text and of .rodata translates to an entry with W clear, every page of
\* .data to an entry with X clear, and no page of a kernel segment has U
\* set; the kernel stacks inserted for the tasks do not change that.
C15_KernelPermissions ==
    ( booted /\ ~(halted /\ last.op = "init") )
    => /\ \A v \in RegionPages(stext, etext) \cup RegionPages(srodata, erodata) :
             IsMapped(kernel_space.page_table, v) /\ ~HasBit(KernelFlags(v), PTE_W)
       /\ \A v \in RegionPages(sdata, edata) :
             IsMapped(kernel_space.page_table, v) /\ ~HasBit(KernelFlags(v), PTE_X)
       /\ \A i \in 1 .. Len(kernel_space.areas) : \A v \in VPNs :
             InSegment(kernel_space.areas[i], v) => ~HasBit(KernelFlags(v), PTE_U)

\* C15 witness: the kernel address space holds the kernel stacks of two
\* tasks next to the five segments of new_kernel.
C15_Witness ==
    /\ booted /\ ~halted /\ Len(tasks) = 2
    /\ Len(kernel_space.areas) = 7
    /\ \A i \in 6 .. 7 :
          /\ kernel_space.areas[i].map_type = "Framed"
          /\ ~SegmentUnmapped(kernel_space, kernel_space.areas[i])

\* Identical segment seg of ms maps every page of its range to the frame of
\* the same number and holds no frame.
IdenticalInPlace(ms, seg) ==
    /\ DOMAIN seg.data_frames = {}
    /\ \A v \in VPNs :
          InSegment(seg, v) => ( IsMapped(ms.page_table, v) /\ ms.page_table.leaves[v].ppn = v )

\* MapArea::unmap of seg in ms, with the allocator a.
Unmapped(ms, a, seg) ==
    MapArea_unmap([ok |-> TRUE, pt |-> ms.page_table, alloc |-> a, area |-> seg])

\* C16: every page of an Identical segment is mapped to the frame whose
\* number is the page's; the segment holds no frame, so the frames in use
\* are those of page-table nodes and of Framed segments only, and
\* unmapping the segment releases nothing.
C16_IdenticalOwnsNothing ==
    ( booted /\ ~halted )
    => /\ \A s \in SpaceIds : \A i \in 1 .. Len(Space(s).areas) :
             Space(s).areas[i].map_type = "Identical"
             => /\ IdenticalInPlace(Space(s), Space(s).areas[i])
                /\ Unmapped(Space(s), frame_allocator, Space(s).areas[i]).ok
                /\ Unmapped(Space(s), frame_allocator, Space(s).areas[i]).alloc = frame_allocator
       /\ NumFrames - FreeFrames(frame_allocator) = Cardinality(OwnedFrames)

\* C16 witness: the kernel address space with its five Identical segments
\* mapped, and a task loaded next to it.
C16_Witness ==
    /\ booted /\ ~halted /\ Len(tasks) = 1
    /\ Len(kernel_space.areas) >= 5
    /\ \A i \in 1 .. 5 :
          /\ kernel_space.areas[i].map_type = "Identical"
          /\ kernel_space.areas[i].vpn_range.start < kernel_space.areas[i].vpn_range.end

(***************************************************************************)
(* System calls.                                                           *)
(***************************************************************************)
\* C17: an mmap call with len > 0 that passes validation completes: it
\* does not stop part-way on frame exhaustion, the free-frame check having
\* covered every frame the call allocates, page-table nodes included.
C17_ValidatedMmapCompletes ==
    [][ ( /\ Called("mmap")
          /\ last'.len > 0
          /\ ~MmapValidationFails(Before, frame_allocator, last'.start, last'.len,
                                  last'.port) )
        => ~halted' ]_vars

\* Task t's trap context is in place: its page is mapped in the task's
\* address space to the frame cached in trap_cx_ppn, and that frame is not
\* free in the allocator.
TrapContextInPlace(t) ==
    /\ IsMapped(tasks[t].memory_set.page_table, VA_floor(TRAP_CONTEXT))
    /\ translate(tasks[t].memory_set.page_table, VA_floor(TRAP_CONTEXT)).ppn
         = tasks[t].trap_cx_ppn
    /\ ~IsFree(frame_allocator, tasks[t].trap_cx_ppn)

\* C18: from TaskControlBlock::new on, through every mmap and munmap the
\* task issues, the task's trap-context page stays mapped to the frame
\* cached in trap_cx_ppn and that frame is not returned to the allocator;
\* munmap does not take away what from_elf created.
C18_TrapContextStays ==
    ~halted => \A t \in 1 .. Len(tasks) : TrapContextInPlace(t)

\* Every page of seg is mapped in ms.
SegmentMapped(ms, seg) ==
    \A v \in VPNs : InSegment(seg, v) => IsMapped(ms.page_table, v)

\* The segments of new that were added to the list old.
AddedSegments(old, new) ==
    {new.areas[i] : i \in (Len(old.areas) + 1) .. Len(new.areas)}

\* C19: push maps all pages of a segment (and copies its data) before it
\* appends the segment to the list: whatever a step adds to a segment list,
\* in new_kernel, from_elf, insert_framed_area or mmap, has every page
\* mapped, and when the kernel stops inside push part-way through the
\* mapping, the list does not hold the segment.
C19_PushMapsBeforeAppend ==
    [][ /\ \A seg \in AddedSegments(kernel_space, kernel_space') :
              SegmentMapped(kernel_space', seg)
        /\ \A t \in 1 .. Len(tasks') :
              \A seg \in AddedSegments(IF t <= Len(tasks)
                                       THEN tasks[t].memory_set
                                       ELSE EmptyMemorySet,
                                       tasks'[t].memory_set) :
                  SegmentMapped(tasks'[t].memory_set, seg) ]_vars

\* C19 witness: the kernel stopped inside the push of an mmap call with the
\* first page of the range mapped, and no segment of the list starts there.
C19_Witness ==
    /\ halted /\ last.op = "mmap" /\ last.len > PAGE_SIZE
    /\ IsMapped(tasks[last.task].memory_set.page_table, last.start \div PAGE_SIZE)
    /\ ~IsMapped(tasks[last.task].memory_set.page_table, (last.start \div PAGE_SIZE) + 1)
    /\ \A i \in 1 .. Len(tasks[last.task].memory_set.areas) :
          tasks[last.task].memory_set.areas[i].vpn_range.start # last.start \div PAGE_SIZE

\* The trampoline page is the same in both address spaces, and so is every
\* leaf entry outside the pages of seg.
SameOutside(before, after, seg) ==
    /\ translate(after.page_table, VA_floor(TRAMPOLINE))
         = translate(before.page_table, VA_floor(TRAMPOLINE))
    /\ \A v \in VPNs :
          ~InSegment(seg, v) => after.page_table.leaves[v] = before.page_table.leaves[v]

\* C20: a munmap call that returns 0 changes the mappings of at most one
\* segment, the first of the list that matches: every leaf entry outside
\* that segment's pages, every other segment with its frames, and the
\* trampoline mapping are as before; with no matching segment nothing
\* changes.
C20_MunmapTouchesOneSegment ==
    [][ ( Called("munmap") /\ ~halted' /\ last'.ret = 0 )
        => LET hits == MatchingSegments(Before, last'.start, last'.len)
           IN  IF hits = {}
               THEN After = Before /\ frame_allocator' = frame_allocator
               ELSE LET i == CHOOSE j \in hits : \A k \in hits : j <= k
                    IN  /\ SameOutside(Before, After, Before.areas[i])
                        /\ \A k \in (1 .. Len(Before.areas)) \ {i} :
                              \E j \in 1 .. Len(After.areas) :
                                  After.areas[j] = Before.areas[k]
                        /\ \A t \in (1 .. Len(tasks)) \ {last'.task} : tasks'[t] = tasks[t]
                        /\ kernel_space' = kernel_space ]_vars

\* C20 witness: munmap over two pages returned 0 where two adjacent segments
\* of one page each covered the range; the first page is unmapped, the
\* second one is still mapped and its segment holds its frame.
C20_Witness ==
    /\ last.op = "munmap" /\ ~halted /\ last.ret = 0
    /\ last.start = MmapBase /\ last.len = 2 * PAGE_SIZE
    /\ ~IsMapped(tasks[last.task].memory_set.page_table, MmapBase \div PAGE_SIZE)
    /\ IsMapped(tasks[last.task].memory_set.page_table, (MmapBase \div PAGE_SIZE) + 1)
    /\ \E i \in 1 .. Len(tasks[last.task].memory_set.areas) :
          /\ tasks[last.task].memory_set.areas[i].vpn_range.start = (MmapBase \div PAGE_SIZE) + 1
          /\ (MmapBase \div PAGE_SIZE) + 1 \in DOMAIN tasks[last.task].memory_set.areas[i].data_frames

\* mm::init statement by statement, then the loading of one application.
NextBoot ==
    \/ InitHeap
    \/ InitFrameAllocator
    \/ KernelSpaceActivate
    \/ \E elf \in ElfImages : TaskNew(elf, 1)

SpecBoot == Init /\ [][NextBoot]_vars

\* init_frame_allocator has run on allocator a.
FrameAllocatorInitialised(a) == a.end = init_frame_allocator.end

\* The kernel address space ms as new_kernel leaves it: the trampoline page
\* and the kernel image regions are mapped.
KernelSpaceBuilt(once, ms) ==
    /\ once = "COMPLETE"
    /\ IsMapped(ms.page_table, VA_floor(TRAMPOLINE))
    /\ Len(ms.areas) >= 5
    /\ \A i \in 1 .. 5 : ms.areas[i].map_type = "Identical"

\* C21: mm::init initialises the kernel heap, then the frame allocator, and
\* only then is the kernel address space built (on the first dereference of
\* the lazy static) and activated.  The frame allocator is initialised after
\* the heap; the first dereference of KERNEL_SPACE happens with the heap and
\* the frame allocator initialised; satp receives the token of the built
\* kernel space; a kernel stack is only ever inserted into a built kernel
\* space; and mm::init returns with all of this done.
C21_BootOrder ==
    [][ /\ ( ~FrameAllocatorInitialised(frame_allocator)
             /\ FrameAllocatorInitialised(frame_allocator') ) => heap
        /\ ( kernel_space_once = "INCOMPLETE" /\ kernel_space_once' # "INCOMPLETE" )
              => ( heap /\ FrameAllocatorInitialised(frame_allocator) )
        /\ ( satp' # satp )
              => ( /\ KernelSpaceBuilt(kernel_space_once', kernel_space')
                   /\ satp' = token(kernel_space'.page_table) )
        /\ ( \E seg \in AddedSegments(kernel_space, kernel_space') : seg.map_type = "Framed" )
              => KernelSpaceBuilt(kernel_space_once, kernel_space)
        /\ ( pc' = Len(init_steps) /\ ~halted' )
              => ( /\ heap'
                   /\ FrameAllocatorInitialised(frame_allocator')
                   /\ KernelSpaceBuilt(kernel_space_once', kernel_space')
                   /\ satp' = token(kernel_space'.page_table) ) ]_vars

\* C21 witness: mm::init has returned with the kernel space activated, and
\* a task's kernel stack has been inserted into it.
C21_Witness ==
    /\ ~halted
    /\ pc = Len(init_steps)
    /\ last.op = "new"
    /\ Len(tasks) = 1
    /\ satp = token(kernel_space.page_table)
    /\ \E i \in 1 .. Len(kernel_space.areas) :
          /\ kernel_space.areas[i].map_type = "Framed"
          /\ kernel_space.areas[i].vpn_range.end = VA_floor(TRAMPOLINE)

====
